---- MODULE Spec2Model ----
(***************************************************************************)
(* A model of validate-snapshot.py: one run of the snapshot validator.     *)
(*                                                                         *)
(* Text is modelled as a sequence of tokens.  A snapshot name is a         *)
(* sequence of characters; an image reference and a manifest are sequences *)
(* of lexical tokens ("@", "sha256:", one hex digit, one other character,  *)
(* a newline, or one of the literal keys the regular expressions look      *)
(* for).  A key token is atomic: the manifests of the model never put one  *)
(* right after "sha256:", where its first letter would read as a hex       *)
(* digit.  A Python value that may be None is a sequence of length 0       *)
(* (None) or 1 (the value).                                                *)
(***************************************************************************)
EXTENDS Naturals, Sequences, FiniteSets

VARIABLES
    pc,             \* the position of the run
    snapshot_name,  \* args.snapshot
    snapshot,       \* Opt(the parsed JSON document's spec.components)
    components,     \* the dict component name -> sha
    stream,         \* Opt("ystream" | "zstream")
    container,      \* the transient container: "none", "created", "removed"
    calls,          \* the external commands issued so far, in order
    succeeded,      \* the commands that exited with status 0
    failed,         \* the commands that exited with a non-zero status
    pending,        \* the exception in flight while the finally block runs
    csv_content,    \* Opt(text of the CSV manifest)
    cm_content,     \* Opt(text of the ConfigMap manifest)
    refs,           \* Opt([operator, agent, daemon]), each an Opt(digest)
    report,         \* the lines printed on stdout that the claims speak about
    error,          \* the exception main() caught, or "none"
    exitCode        \* Opt(the status given to sys.exit)

vars == <<pc, snapshot_name, snapshot, components, stream, container, calls,
          succeeded, failed, pending, csv_content, cm_content, refs, report,
          error, exitCode>>

-----------------------------------------------------------------------------
(* Bounds of the input spaces of the two pure-function specifications.     *)

MaxNameParts == 3
MaxImageLen == 3
MaxComponents == 2

-----------------------------------------------------------------------------
(* Python values.                                                          *)

None == <<>>
Some(v) == <<v>>
Value(o) == o[1]

Min(S) == CHOOSE x \in S : \A y \in S : x <= y
Max(S) == CHOOSE x \in S : \A y \in S : y <= x

Return(v) == [exc |-> "none", val |-> Some(v)]
Raise(e) == [exc |-> e, val |-> None]

\* sub in s, for two strings
Contains(s, sub) ==
    \E i \in 1..(Len(s) + 1) :
        /\ i + Len(sub) - 1 <= Len(s)
        /\ SubSeq(s, i, i + Len(sub) - 1) = sub

Count(s, x) == Cardinality({i \in 1..Len(s) : s[i] = x})

-----------------------------------------------------------------------------
(* detect_stream                                                           *)

YSTREAM == <<"y", "s", "t", "r", "e", "a", "m">>
ZSTREAM == <<"z", "s", "t", "r", "e", "a", "m">>

StartsWith(s, prefix) ==
    Len(prefix) <= Len(s) /\ SubSeq(s, 1, Len(prefix)) = prefix

\* snapshot_name.startswith(marker) instead of marker in snapshot_name
detect_stream_startswith(name) ==
    IF StartsWith(name, YSTREAM) THEN Return("ystream")
    ELSE IF StartsWith(name, ZSTREAM) THEN Return("zstream")
    ELSE Raise("ValueError")

\* a default stream instead of the ValueError
detect_stream_default(name) ==
    IF Contains(name, YSTREAM) THEN Return("ystream")
    ELSE IF Contains(name, ZSTREAM) THEN Return("zstream")
    ELSE Return("ystream")

detect_stream(name) ==
    IF Contains(name, YSTREAM) THEN Return("ystream")
    ELSE IF Contains(name, ZSTREAM) THEN Return("zstream")
    ELSE Raise("ValueError")

-----------------------------------------------------------------------------
(* image.split("@") and the loop of get_snapshot_components                *)

RECURSIVE split(_)
split(s) ==
    LET at == {i \in 1..Len(s) : s[i] = "@"}
    IN  IF at = {} THEN <<s>>
        ELSE <<SubSeq(s, 1, Min(at) - 1)>> \o split(SubSeq(s, Min(at) + 1, Len(s)))

\* image.split("@")[-1]
sha_of_last_field(image) ==
    LET parts == split(image)
    IN  IF Len(parts) < 2 THEN Raise("IndexError") ELSE Return(parts[Len(parts)])

\* image.split("@")[1]
sha_of(image) ==
    LET parts == split(image)
    IN  IF Len(parts) < 2 THEN Raise("IndexError") ELSE Return(parts[2])

\* components[name] = sha
SetItem(d, k, v) == [x \in (DOMAIN d) \cup {k} |-> IF x = k THEN v ELSE d[x]]

EmptyDict == [x \in {} |-> None]

\* for comp in snapshot["spec"]["components"]: ...
RECURSIVE component_shas(_)
component_shas(comps) ==
    IF comps = <<>> THEN Return(EmptyDict)
    ELSE LET n == Len(comps)
             before == component_shas(SubSeq(comps, 1, n - 1))
             sha == sha_of(comps[n].containerImage)
         IN  IF before.exc # "none" THEN before
             ELSE IF sha.exc # "none" THEN sha
             ELSE Return(SetItem(Value(before.val), comps[n].name, Value(sha.val)))

-----------------------------------------------------------------------------
(* The three regular expressions of extract_bundle_refs.                   *)

OperatorKey == "registry.redhat.io/bpfman/bpfman-rhel9-operator"
AgentKey == "bpfman.agent.image:"
DaemonKey == "bpfman.image:"

HexDigits == {"1", "2"}     \* tokens matched by [a-f0-9]

\* the text matched by [a-f0-9]+ from position i on (greedy)
HexRun(s, i) ==
    LET ends == {j \in i..Len(s) : \A k \in i..j : s[k] \in HexDigits}
    IN  IF ends = {} THEN <<>> ELSE SubSeq(s, i, Max(ends))

\* @(sha256:[a-f0-9]+) matches at position j
DigestAt(s, j) ==
    /\ j >= 1
    /\ j + 2 <= Len(s)
    /\ s[j] = "@"
    /\ s[j + 1] = "sha256:"
    /\ s[j + 2] \in HexDigits

\* group(1) of that match
Group(s, j) == <<"sha256:">> \o HexRun(s, j + 2)

\* .* matches s[i..j]: no newline in it
NoNewline(s, i, j) == \A k \in i..j : s[k] # "\n"

\* re.search(r"registry\.redhat\.io/bpfman/bpfman-rhel9-operator@(sha256:[a-f0-9]+)", text)
search_operator(text) ==
    LET starts == {i \in 1..Len(text) : text[i] = OperatorKey /\ DigestAt(text, i + 1)}
    IN  IF starts = {} THEN None ELSE Some(Group(text, Min(starts) + 1))

\* re.search(key + r".*@(sha256:[a-f0-9]+)", text): the leftmost key, then the
\* last digest of its line (.* is greedy)
search_key(text, key) ==
    LET ats(i) == {j \in (i + 1)..Len(text) :
                       NoNewline(text, i + 1, j - 1) /\ DigestAt(text, j)}
        starts == {i \in 1..Len(text) : text[i] = key /\ ats(i) # {}}
    IN  IF starts = {} THEN None ELSE Some(Group(text, Max(ats(Min(starts)))))

\* lines 84-98
parse_refs(csv, cm) ==
    [operator |-> search_operator(csv),
     agent |-> search_key(cm, AgentKey),
     daemon |-> search_key(cm, DaemonKey)]

-----------------------------------------------------------------------------
(* The inputs of a run: the snapshot name given on the command line, and   *)
(* what the external commands answer.                                      *)

Prefix == <<"o", "c", "p", "-">>
SnapshotNames ==
    { Prefix \o YSTREAM,                   \* ...-ystream
      Prefix \o ZSTREAM \o <<"-", "1">>,   \* ...-zstream-1
      ZSTREAM \o <<"-">> \o YSTREAM,       \* both markers
      Prefix \o <<"s", "t", "r", "e", "a", "m">>,   \* no marker
      <<"y", "s", "t", "r", "e", "m">> }            \* no marker

Streams == {"ystream", "zstream"}
Roles == <<"operator", "agent", "daemon">>

Digest1 == <<"sha256:", "1">>
Digest2 == <<"sha256:", "2">>
Digest12 == <<"sha256:", "1", "2">>
BundleDigest == <<"sha256:", "2", "2">>
Digests == {Digest1, Digest2, Digest12}

Image(repo, digest) == <<repo, "@">> \o digest
Component(n, image) == [name |-> n, containerImage |-> image]

\* the component keys validate_snapshot looks up: f"bpfman-operator-{stream}", ...
ComponentKey(role, s) ==
    IF role = "bundle" THEN "bpfman-operator-bundle-" \o s
    ELSE "bpfman-" \o role \o "-" \o s

SnapshotOf(s, op, ag, da) ==
    << Component(ComponentKey("operator", s), Image("operator", op)),
       Component(ComponentKey("agent", s), Image("agent", ag)),
       Component(ComponentKey("daemon", s), Image("daemon", da)),
       Component(ComponentKey("bundle", s), Image("bundle", BundleDigest)) >>

Without(seq, i) == SubSeq(seq, 1, i - 1) \o SubSeq(seq, i + 1, Len(seq))

Snapshots ==
    \* the four components of one stream
    { SnapshotOf(s, op, ag, da) : s \in Streams, op \in {Digest1, Digest2},
                                  ag \in {Digest1, Digest2}, da \in {Digest1, Digest12} }
    \* one of the four is not there
    \cup { Without(SnapshotOf(s, Digest1, Digest2, Digest12), i) : s \in Streams, i \in 1..4 }
    \* a fifth component, with a well-formed or a digest-less image reference
    \cup { SnapshotOf(s, Digest1, Digest2, Digest12) \o <<Component("extra", image)>> :
             s \in Streams, image \in {Image("extra", Digest1), <<"extra">>} }
    \* a reference with a second "@"
    \cup { <<Component(ComponentKey("operator", s),
                       Image("operator", Digest1) \o <<"@">> \o Digest2)>>
           \o Without(SnapshotOf(s, Digest1, Digest2, Digest12), 1) : s \in Streams }
    \* the same name twice
    \cup { <<Component(ComponentKey("agent", s), Image("agent", Digest1))>>
           \o SnapshotOf(s, Digest1, Digest2, Digest12) : s \in Streams }

\* what `oc get snapshot -o json` answers: a non-zero status, or status 0 and
\* a text that json.loads rejects (None) or parses
OcOutcomes ==
    { [status |-> 1, json |-> None], [status |-> 0, json |-> None] }
    \cup { [status |-> 0, json |-> Some(doc)] : doc \in Snapshots }

OperatorRef(d) == <<OperatorKey, "@">> \o d
KeyLine(key, d) == <<key, " ", "quay.io/bpfman", "@">> \o d \o <<"\n">>

CsvManifests ==
    { <<"image:", " ">> \o OperatorRef(d) \o <<"\n">> : d \in {Digest1, Digest2} }
    \cup { <<"image:", " ", "other", "@">> \o Digest1 \o <<"\n">>,   \* another image
           <<OperatorKey, "@", "sha256:", "g", "\n">>,              \* no hex digit
           OperatorRef(Digest1) \o <<"g", "\n">> \o OperatorRef(Digest2) }

CmManifests ==
    { a \o d : a \in { KeyLine(AgentKey, Digest1), KeyLine(AgentKey, Digest2), <<>> },
               d \in { KeyLine(DaemonKey, Digest1), KeyLine(DaemonKey, Digest12), <<>> } }
    \cup { \* two digests on the agent's line, the daemon's digest on the next line
           <<AgentKey, " ", "@">> \o Digest2 \o <<" ", "@">> \o Digest1
               \o <<"\n", DaemonKey, "\n", "@">> \o Digest1 }

-----------------------------------------------------------------------------
(* The run.                                                                *)

Init ==
    /\ pc = "get_snapshot_components"
    /\ snapshot_name \in SnapshotNames
    /\ snapshot = None
    /\ components = EmptyDict
    /\ stream = None
    /\ container = "none"
    /\ calls = <<>>
    /\ succeeded = {}
    /\ failed = {}
    /\ pending = "none"
    /\ csv_content = None
    /\ cm_content = None
    /\ refs = None
    /\ report = <<>>
    /\ error = "none"
    /\ exitCode = None

Line(k, r) == [kind |-> k, role |-> r]

\* main's two except clauses: the exception is printed, sys.exit(2)
Fatal(e) ==
    /\ error' = e
    /\ exitCode' = Some(2)
    /\ pc' = "done"

Goto(label) ==
    /\ pc' = label
    /\ UNCHANGED <<error, exitCode>>

\* subprocess.run(cmd, check=True) returned
Ran(cmd, status) ==
    /\ calls' = Append(calls, cmd)
    /\ succeeded' = IF status = 0 THEN succeeded \cup {cmd} ELSE succeeded
    /\ failed' = IF status = 0 THEN failed ELSE failed \cup {cmd}

\* validate_snapshot's first print, then get_snapshot_components
get_snapshot_components ==
    /\ pc = "get_snapshot_components"
    /\ \E out \in OcOutcomes :
         LET s == detect_stream(snapshot_name)
             doc == Value(out.json)
             c == component_shas(doc)
         IN  /\ Ran("oc get snapshot", out.status)
             /\ report' = Append(report, Line("validating", ""))
             /\ IF out.status # 0
                  THEN Fatal("CalledProcessError")
                       /\ UNCHANGED <<snapshot, stream, components>>
                ELSE IF out.json = None
                  THEN Fatal("JSONDecodeError")
                       /\ UNCHANGED <<snapshot, stream, components>>
                ELSE IF s.exc # "none"
                  THEN Fatal(s.exc) /\ snapshot' = out.json
                       /\ UNCHANGED <<stream, components>>
                ELSE IF c.exc # "none"
                  THEN Fatal(c.exc) /\ snapshot' = out.json /\ stream' = s.val
                       /\ UNCHANGED components
                ELSE Goto("print_snapshot") /\ snapshot' = out.json
                     /\ stream' = s.val /\ components' = Value(c.val)
    /\ UNCHANGED <<snapshot_name, container, pending, csv_content, cm_content, refs>>

\* components.get(key): no KeyError
lookup_or_none(d, k) == IF k \in DOMAIN d THEN Return(d[k]) ELSE Return(None)

\* components[key]
lookup(d, k) == IF k \in DOMAIN d THEN Return(d[k]) ELSE Raise("KeyError")

\* lines 108-116: the four lookups, in the order of the prints
print_snapshot ==
    /\ pc = "print_snapshot"
    /\ LET order == <<"operator", "agent", "daemon", "bundle">>
           got == [i \in 1..4 |-> lookup(components, ComponentKey(order[i], Value(stream)))]
           bad == {i \in 1..4 : got[i].exc # "none"}
           printed == IF bad = {} THEN 4 ELSE Min(bad) - 1
       IN  /\ report' = report \o <<Line("snapshot contains", "")>>
                               \o [i \in 1..printed |-> Line("snapshot", order[i])]
           /\ IF bad = {} THEN Goto("podman_create") ELSE Fatal(got[Min(bad)].exc)
    /\ UNCHANGED <<snapshot_name, snapshot, components, stream, container, calls,
                   succeeded, failed, pending, csv_content, cm_content, refs>>

\* lines 46-52
podman_create ==
    /\ pc = "podman_create"
    /\ \E status \in {0, 125} :
         /\ Ran("podman create", status)
         /\ IF status = 0
              THEN Goto("podman_cp_csv") /\ container' = "created"
              ELSE Fatal("CalledProcessError") /\ UNCHANGED container
    /\ UNCHANGED <<snapshot_name, snapshot, components, stream, pending,
                   csv_content, cm_content, refs, report>>

\* the CSV copy without check=True: its status is ignored
podman_cp_csv_unchecked ==
    /\ pc = "podman_cp_csv"
    /\ \E out \in {None} \cup {Some(t) : t \in CsvManifests} :
         /\ Ran("podman cp csv", IF out = None THEN 125 ELSE 0)
         /\ csv_content' = out
         /\ Goto("podman_cp_cm")
    /\ UNCHANGED <<snapshot_name, snapshot, components, stream, container, pending,
                   cm_content, refs, report>>

\* lines 56-66; a failure enters the finally block with the exception pending
podman_cp_csv ==
    /\ pc = "podman_cp_csv"
    /\ \E out \in {None} \cup {Some(t) : t \in CsvManifests} :
         /\ Ran("podman cp csv", IF out = None THEN 125 ELSE 0)
         /\ csv_content' = out
         /\ pending' = IF out = None THEN "CalledProcessError" ELSE pending
         /\ Goto(IF out = None THEN "podman_rm" ELSE "podman_cp_cm")
    /\ UNCHANGED <<snapshot_name, snapshot, components, stream, container,
                   cm_content, refs, report>>

\* the ConfigMap copy outside any try/finally: its failure leaves the function
podman_cp_cm_no_finally ==
    /\ pc = "podman_cp_cm"
    /\ \E out \in {None} \cup {Some(t) : t \in CmManifests} :
         /\ Ran("podman cp cm", IF out = None THEN 125 ELSE 0)
         /\ cm_content' = out
         /\ IF out = None THEN Fatal("CalledProcessError") ELSE Goto("podman_rm")
    /\ UNCHANGED <<snapshot_name, snapshot, components, stream, container, pending,
                   csv_content, refs, report>>

\* lines 69-79
podman_cp_cm ==
    /\ pc = "podman_cp_cm"
    /\ \E out \in {None} \cup {Some(t) : t \in CmManifests} :
         /\ Ran("podman cp cm", IF out = None THEN 125 ELSE 0)
         /\ cm_content' = out
         /\ pending' = IF out = None THEN "CalledProcessError" ELSE pending
         /\ Goto("podman_rm")
    /\ UNCHANGED <<snapshot_name, snapshot, components, stream, container,
                   csv_content, refs, report>>

\* the cleanup without check=True: its status is ignored
podman_rm_unchecked ==
    /\ pc = "podman_rm"
    /\ \E status \in {0, 125} :
         /\ Ran("podman rm", status)
         /\ container' = IF status = 0 THEN "removed" ELSE container
         /\ IF pending # "none" THEN Fatal(pending) ELSE Goto("parse_bundle_refs")
    /\ pending' = "none"
    /\ UNCHANGED <<snapshot_name, snapshot, components, stream, csv_content,
                   cm_content, refs, report>>

\* lines 80-82: the finally block; its own failure replaces a pending exception
podman_rm ==
    /\ pc = "podman_rm"
    /\ \E status \in {0, 125} :
         /\ Ran("podman rm", status)
         /\ container' = IF status = 0 THEN "removed" ELSE container
         /\ IF status # 0 THEN Fatal("CalledProcessError")
            ELSE IF pending # "none" THEN Fatal(pending)
            ELSE Goto("parse_bundle_refs")
    /\ pending' = "none"
    /\ UNCHANGED <<snapshot_name, snapshot, components, stream, csv_content,
                   cm_content, refs, report>>

\* lines 84-98 and the prints of lines 119-123
parse_bundle_refs ==
    /\ pc = "parse_bundle_refs"
    /\ refs' = Some(parse_refs(Value(csv_content), Value(cm_content)))
    /\ report' = report \o <<Line("bundle references", "")>>
                        \o [i \in 1..3 |-> Line("bundle", Roles[i])]
    /\ Goto("compare")
    /\ UNCHANGED <<snapshot_name, snapshot, components, stream, container, calls,
                   succeeded, failed, pending, csv_content, cm_content>>

\* refs[role] != components[f"bpfman-{role}-{stream}"]
\* a field that was not found is not compared
mismatch_none_passes(ref, sha) == ref # None /\ ref # Some(sha)

mismatch(ref, sha) == ref # Some(sha)

Mismatched(role) ==
    mismatch(Value(refs)[role], components[ComponentKey(role, Value(stream))])

\* each comparison assigns valid, so the last one decides
compare_last_decides ==
    /\ pc = "compare"
    /\ LET valid == ~Mismatched("daemon")
       IN  /\ report' = report
                 \o [i \in 1..3 |->
                       Line(IF Mismatched(Roles[i]) THEN "MISMATCH" ELSE "matches", Roles[i])]
                 \o <<Line(IF valid THEN "VALID" ELSE "INVALID", "")>>
           /\ exitCode' = Some(IF valid THEN 0 ELSE 1)
    /\ pc' = "done"
    /\ UNCHANGED <<snapshot_name, snapshot, components, stream, container, calls,
                   succeeded, failed, pending, csv_content, cm_content, refs, error>>

\* an if/elif chain: the comparisons stop at the first mismatch
compare_stops_at_first ==
    /\ pc = "compare"
    /\ LET bad == {i \in 1..3 : Mismatched(Roles[i])}
           valid == bad = {}
           shown == IF valid THEN 3 ELSE Min(bad)
       IN  /\ report' = report
                 \o [i \in 1..shown |->
                       Line(IF Mismatched(Roles[i]) THEN "MISMATCH" ELSE "matches", Roles[i])]
                 \o <<Line(IF valid THEN "VALID" ELSE "INVALID", "")>>
           /\ exitCode' = Some(IF valid THEN 0 ELSE 1)
    /\ pc' = "done"
    /\ UNCHANGED <<snapshot_name, snapshot, components, stream, container, calls,
                   succeeded, failed, pending, csv_content, cm_content, refs, error>>

\* lines 125-160
compare ==
    /\ pc = "compare"
    /\ LET valid == \A i \in 1..3 : ~Mismatched(Roles[i])
       IN  /\ report' = report
                 \o [i \in 1..3 |->
                       Line(IF Mismatched(Roles[i]) THEN "MISMATCH" ELSE "matches", Roles[i])]
                 \o <<Line(IF valid THEN "VALID" ELSE "INVALID", "")>>
           /\ exitCode' = Some(IF valid THEN 0 ELSE 1)
    /\ pc' = "done"
    /\ UNCHANGED <<snapshot_name, snapshot, components, stream, container, calls,
                   succeeded, failed, pending, csv_content, cm_content, refs, error>>

Next ==
    \/ get_snapshot_components
    \/ print_snapshot
    \/ podman_create
    \/ podman_cp_csv
    \/ podman_cp_cm
    \/ podman_rm
    \/ parse_bundle_refs
    \/ compare

Spec == Init /\ [][Next]_vars

-----------------------------------------------------------------------------
(* detect_stream alone, applied to every name of at most MaxNameParts      *)
(* pieces: a marker may be there whole, split over two pieces, or in part. *)

NamePieces ==
    { <<"y">>, <<"z">>, <<"s", "t", "r", "e", "a", "m">>, <<"s", "t", "r", "e", "m">>,
      <<"-">>, ZSTREAM }

RECURSIVE NamesOf(_)
NamesOf(n) ==
    IF n = 0 THEN {<<>>}
    ELSE NamesOf(n - 1) \cup {name \o piece : name \in NamesOf(n - 1), piece \in NamePieces}

InitDetect ==
    /\ pc = "detect_stream"
    /\ snapshot_name \in NamesOf(MaxNameParts)
    /\ snapshot = None
    /\ components = EmptyDict
    /\ stream = None
    /\ container = "none"
    /\ calls = <<>>
    /\ succeeded = {}
    /\ failed = {}
    /\ pending = "none"
    /\ csv_content = None
    /\ cm_content = None
    /\ refs = None
    /\ report = <<>>
    /\ error = "none"
    /\ exitCode = None

call_detect_stream ==
    /\ pc = "detect_stream"
    /\ LET s == detect_stream(snapshot_name)
       IN  stream' = s.val /\ error' = s.exc
    /\ pc' = "returned"
    /\ UNCHANGED <<snapshot_name, snapshot, components, container, calls, succeeded,
                   failed, pending, csv_content, cm_content, refs, report, exitCode>>

NextDetect == call_detect_stream

SpecDetect == InitDetect /\ [][NextDetect]_vars

-----------------------------------------------------------------------------
(* The loop of get_snapshot_components alone, applied to every list of at  *)
(* most MaxComponents components whose image references have at most       *)
(* MaxImageLen tokens.                                                     *)

ImageTokens == {"@", "d"}
ComponentNames == {"a", "b"}

RECURSIVE SeqsOf(_, _)
SeqsOf(S, n) ==
    IF n = 0 THEN {<<>>}
    ELSE SeqsOf(S, n - 1) \cup {Append(q, x) : q \in SeqsOf(S, n - 1), x \in S}

ComponentLists ==
    SeqsOf({Component(n, image) : n \in ComponentNames,
                                  image \in SeqsOf(ImageTokens, MaxImageLen)},
           MaxComponents)

InitComponents ==
    /\ pc = "component_shas"
    /\ snapshot_name = <<>>
    /\ snapshot \in {Some(doc) : doc \in ComponentLists}
    /\ components = EmptyDict
    /\ stream = None
    /\ container = "none"
    /\ calls = <<>>
    /\ succeeded = {}
    /\ failed = {}
    /\ pending = "none"
    /\ csv_content = None
    /\ cm_content = None
    /\ refs = None
    /\ report = <<>>
    /\ error = "none"
    /\ exitCode = None

call_component_shas ==
    /\ pc = "component_shas"
    /\ LET c == component_shas(Value(snapshot))
       IN  /\ error' = c.exc
           /\ components' = IF c.exc = "none" THEN Value(c.val) ELSE components
    /\ pc' = "returned"
    /\ UNCHANGED <<snapshot_name, snapshot, stream, container, calls, succeeded,
                   failed, pending, csv_content, cm_content, refs, report, exitCode>>

NextComponents == call_component_shas

SpecComponents == InitComponents /\ [][NextComponents]_vars

-----------------------------------------------------------------------------
(* What the claims speak about.                                            *)

Issued(cmd) == Count(calls, cmd) >= 1

PodmanCommands == {"podman create", "podman cp csv", "podman cp cm", "podman rm"}

Printed(k, r) == Count(report, Line(k, r))

\* a line of the comparison step, or the verdict
ComparisonPrinted ==
    \E i \in 1..Len(report) : report[i].kind \in {"MISMATCH", "matches", "VALID", "INVALID"}

\* the name holds neither marker
Undetectable(name) == ~Contains(name, YSTREAM) /\ ~Contains(name, ZSTREAM)

\* the names of the components of the fetched document
NamesIn(doc) == {doc[i].name : i \in 1..Len(doc)}

AllRoles == {"operator", "agent", "daemon", "bundle"}

\* the fetched document lacks one of the four names expected for the stream
LacksExpected ==
    /\ snapshot # None
    /\ stream # None
    /\ \E r \in AllRoles : ComponentKey(r, Value(stream)) \notin NamesIn(Value(snapshot))

HasExpected ==
    /\ snapshot # None
    /\ stream # None
    /\ \A r \in AllRoles : ComponentKey(r, Value(stream)) \in NamesIn(Value(snapshot))

\* every image reference of the fetched document holds an "@"
EveryImageHasAt ==
    \A i \in 1..Len(Value(snapshot)) :
        \E k \in 1..Len(Value(snapshot)[i].containerImage) :
            Value(snapshot)[i].containerImage[k] = "@"

\* the roles whose extracted digest is not the snapshot's
Differing ==
    {r \in {"operator", "agent", "daemon"} :
        Value(refs)[r] # Some(components[ComponentKey(r, Value(stream))])}

-----------------------------------------------------------------------------
\* C1: once `podman create` has succeeded, `podman rm` is issued exactly once
\* before extract_bundle_refs is left (outside its try/finally the count is 1,
\* inside it at most 1), whichever copy failed; if `podman create` failed, no
\* `podman cp` and no `podman rm` is issued.
C1_RemovedOnEveryExitPath ==
    /\ "podman create" \in succeeded =>
         /\ Count(calls, "podman rm") <= 1
         /\ pc \notin {"podman_cp_csv", "podman_cp_cm", "podman_rm"} =>
              Count(calls, "podman rm") = 1
    /\ "podman create" \in failed =>
         /\ pc = "done"
         /\ ~Issued("podman cp csv") /\ ~Issued("podman cp cm") /\ ~Issued("podman rm")

C1_Witness ==
    /\ pc = "done"
    /\ "podman cp csv" \in succeeded
    /\ "podman cp cm" \in failed
    /\ Count(calls, "podman rm") = 1

\* C2 as stated: when no external command failed and the snapshot has the four
\* expected components, the run returns 0 if the three extracted digests equal
\* the snapshot's, and 1 otherwise.
C2_Original ==
    (pc = "done" /\ failed = {} /\ HasExpected) =>
        /\ exitCode \in {Some(0), Some(1)}
        /\ exitCode = Some(0) <=> (refs # None /\ Differing = {})

\* C2, amended: the same, for a snapshot all of whose image references hold
\* an "@".
C2_ExitCodeIffAllMatch ==
    (pc = "done" /\ failed = {} /\ HasExpected /\ EveryImageHasAt) =>
        /\ refs # None
        /\ exitCode \in {Some(0), Some(1)}
        /\ exitCode = Some(0) <=> Differing = {}
        /\ Printed("VALID", "") = (IF Differing = {} THEN 1 ELSE 0)
        /\ Printed("INVALID", "") = (IF Differing = {} THEN 0 ELSE 1)

C2_Witness ==
    /\ pc = "done"
    /\ failed = {}
    /\ HasExpected
    /\ EveryImageHasAt
    /\ exitCode = Some(0)
    /\ Differing = {}

\* C3 as stated: for a name with neither marker no external command is ever
\* invoked, and the run ends with exit code 2.
C3_Original ==
    Undetectable(snapshot_name) =>
        /\ calls = <<>>
        /\ pc = "done" => exitCode = Some(2)

\* C3, amended: for a name with neither marker, `oc get snapshot` is invoked
\* once and nothing else: no podman command is ever invoked, and the run ends
\* with exit code 2.
C3_UndetectableAbortsAfterOcGet ==
    Undetectable(snapshot_name) =>
        /\ \A cmd \in PodmanCommands : ~Issued(cmd)
        /\ Count(calls, "oc get snapshot") <= 1
        /\ pc \in {"get_snapshot_components", "done"}
        /\ pc = "done" =>
             /\ calls = <<"oc get snapshot">>
             /\ exitCode = Some(2)
             /\ ~ComparisonPrinted

C3_Witness ==
    /\ pc = "done"
    /\ Undetectable(snapshot_name)
    /\ "oc get snapshot" \in succeeded
    /\ error = "ValueError"

\* C4: when exactly one role's extracted digest differs from the snapshot's,
\* the run exits with 1, prints MISMATCH for that role only and a match line
\* for each of the other two; every run that compares prints one line per role.
C4_OneMismatchReported ==
    (pc = "done" /\ refs # None) =>
        /\ \A r \in {"operator", "agent", "daemon"} :
              Printed("MISMATCH", r) + Printed("matches", r) = 1
        /\ Cardinality(Differing) = 1 =>
              /\ exitCode = Some(1)
              /\ \A r \in {"operator", "agent", "daemon"} :
                    /\ Printed("MISMATCH", r) = (IF r \in Differing THEN 1 ELSE 0)
                    /\ Printed("matches", r) = (IF r \in Differing THEN 0 ELSE 1)

C4_Witness ==
    /\ pc = "done"
    /\ refs # None
    /\ Differing = {"operator"}
    /\ Printed("matches", "agent") = 1
    /\ Printed("matches", "daemon") = 1

\* C5: once an external command has exited non-zero, only the cleanup
\* `podman rm` may still run, the run ends with exit code 2 and never 0 or 1,
\* no comparison line or verdict is printed, and no failed command is issued
\* a second time.
C5_CommandFailureIsTerminal ==
    failed # {} =>
        /\ pc \in {"podman_rm", "done"}
        /\ pc = "done" => exitCode = Some(2)
        /\ exitCode \notin {Some(0), Some(1)}
        /\ ~ComparisonPrinted
        /\ refs = None
        /\ \A cmd \in failed : Count(calls, cmd) = 1

C5_Witness ==
    /\ pc = "done"
    /\ failed = {"podman rm"}
    /\ "podman cp csv" \in succeeded
    /\ "podman cp cm" \in succeeded
    /\ exitCode = Some(2)

\* no text of `text` matches the pattern of `role`
NoMatch(role, text) ==
    IF role = "operator"
    THEN ~\E i \in 1..Len(text) :
            /\ i + 3 <= Len(text)
            /\ text[i] = OperatorKey
            /\ text[i + 1] = "@"
            /\ text[i + 2] = "sha256:"
            /\ text[i + 3] \in HexDigits
    ELSE ~\E i \in 1..Len(text) : \E j \in (i + 1)..Len(text) :
            /\ j + 2 <= Len(text)
            /\ text[i] = (IF role = "agent" THEN AgentKey ELSE DaemonKey)
            /\ \A k \in (i + 1)..(j - 1) : text[k] # "\n"
            /\ text[j] = "@"
            /\ text[j + 1] = "sha256:"
            /\ text[j + 2] \in HexDigits

ManifestOf(role) == IF role = "operator" THEN Value(csv_content) ELSE Value(cm_content)

\* C6: when both manifests were copied and no command failed, a pattern that
\* matches nothing leaves its field None, the run still reaches the
\* comparison, which reports that role as a mismatch, and the run ends with
\* exit code 1.
C6_UnmatchedPatternIsMismatch ==
    (pc = "done" /\ failed = {} /\ cm_content # None) =>
        \A r \in {"operator", "agent", "daemon"} :
            NoMatch(r, ManifestOf(r)) =>
                /\ refs # None
                /\ Value(refs)[r] = None
                /\ Printed("MISMATCH", r) = 1
                /\ exitCode = Some(1)
                /\ error = "none"

C6_Witness ==
    /\ pc = "done"
    /\ refs # None
    /\ NoMatch("daemon", Value(cm_content))
    /\ ~NoMatch("agent", Value(cm_content))
    /\ Value(refs).daemon = None
    /\ exitCode = Some(1)

\* C7: detect_stream returns "ystream" for a name that holds "ystream" and not
\* "zstream", "zstream" for a name that holds "zstream" and not "ystream", and
\* raises for a name that holds neither; nothing else changes.
C7_DetectStream ==
    pc = "returned" =>
        /\ (Contains(snapshot_name, YSTREAM) /\ ~Contains(snapshot_name, ZSTREAM)) =>
              (stream = Some("ystream") /\ error = "none")
        /\ (Contains(snapshot_name, ZSTREAM) /\ ~Contains(snapshot_name, YSTREAM)) =>
              (stream = Some("zstream") /\ error = "none")
        /\ Undetectable(snapshot_name) => (stream = None /\ error = "ValueError")
        /\ calls = <<>> /\ report = <<>> /\ container = "none" /\ exitCode = None

C7_Witness ==
    /\ pc = "returned"
    /\ Contains(snapshot_name, ZSTREAM)
    /\ ~Contains(snapshot_name, YSTREAM)
    /\ ~StartsWith(snapshot_name, ZSTREAM)
    /\ stream = Some("zstream")

\* the text after the first "@" of an image reference that holds one
AfterFirstAt(image) ==
    LET at == {i \in 1..Len(image) : image[i] = "@"}
    IN  SubSeq(image, Min(at) + 1, Len(image))

\* that text, up to its own first "@" if it holds one
UpToNextAt(text) ==
    LET at == {i \in 1..Len(text) : text[i] = "@"}
    IN  IF at = {} THEN text ELSE SubSeq(text, 1, Min(at) - 1)

\* the last component of the list that bears the name
LastNamed(doc, n) == doc[Max({i \in 1..Len(doc) : doc[i].name = n})]

\* C8 as stated: the digest stored under each component's name is all of the
\* component's image reference after its first "@".
C8_Original ==
    (pc = "returned" /\ error = "none") =>
        \A i \in 1..Len(Value(snapshot)) :
            components[Value(snapshot)[i].name]
                = AfterFirstAt(Value(snapshot)[i].containerImage)

\* C8, amended: the digest stored under a name is the text between the first
\* "@" and the next "@", or the end, of the image reference of the last
\* component that bears the name; the mapping has exactly the names of the
\* components, and it is built unless some image reference holds no "@".
C8_DigestIsSecondField ==
    pc = "returned" =>
        /\ error = "none" <=>
              \A i \in 1..Len(Value(snapshot)) :
                  \E k \in 1..Len(Value(snapshot)[i].containerImage) :
                      Value(snapshot)[i].containerImage[k] = "@"
        /\ error = "none" =>
              /\ DOMAIN components = NamesIn(Value(snapshot))
              /\ \A n \in NamesIn(Value(snapshot)) :
                    components[n]
                        = UpToNextAt(AfterFirstAt(LastNamed(Value(snapshot), n).containerImage))

C8_Witness ==
    /\ pc = "returned"
    /\ error = "none"
    /\ snapshot = Some(<<Component("a", <<"@", "d", "@">>)>>)
    /\ components["a"] = <<"d">>

Rank(cmd) ==
    CASE cmd = "oc get snapshot" -> 1
      [] cmd = "podman create" -> 2
      [] cmd = "podman cp csv" -> 3
      [] cmd = "podman cp cm" -> 4
      [] cmd = "podman rm" -> 5

\* C9: the commands are issued in the order oc get, podman create, cp of the
\* CSV, cp of the ConfigMap, podman rm, each at most once; podman create only
\* after oc get succeeded, the ConfigMap copy only after the CSV copy
\* succeeded, and the comparison only after podman rm succeeded.
C9_StrictCommandOrder ==
    /\ \A i, j \in 1..Len(calls) : i < j => Rank(calls[i]) < Rank(calls[j])
    /\ Issued("podman create") => "oc get snapshot" \in succeeded
    /\ Issued("podman cp csv") => "podman create" \in succeeded
    /\ Issued("podman cp cm") => "podman cp csv" \in succeeded
    /\ Issued("podman rm") => "podman create" \in succeeded
    /\ (pc = "compare" \/ ComparisonPrinted) => "podman rm" \in succeeded

C9_Witness ==
    /\ pc = "compare"
    /\ calls = <<"oc get snapshot", "podman create", "podman cp csv", "podman cp cm",
                 "podman rm">>

\* C10: when the fetched snapshot lacks one of the four component names of the
\* detected stream, the run ends with exit code 2 before `podman create`: no
\* podman command is issued, no container exists, and no comparison line or
\* verdict is printed.
C10_MissingComponentAborts ==
    LacksExpected =>
        /\ pc \in {"print_snapshot", "done"}
        /\ pc = "done" => exitCode = Some(2)
        /\ \A cmd \in PodmanCommands : ~Issued(cmd)
        /\ container = "none"
        /\ ~ComparisonPrinted

C10_Witness ==
    /\ pc = "done"
    /\ LacksExpected
    /\ error = "KeyError"
    /\ exitCode = Some(2)

====
